---- MODULE Spec2Model ----
(***************************************************************************)
(* Wallet withdrawals and their reconciliation against the payout          *)
(* provider: WalletService (src/src/wallet/wallet.service.ts) and          *)
(* PayPalService (src/src/wallet/services/paypal.service.ts); and the      *)
(* budget totals of itineraries: ItineraryService                          *)
(* (src/src/itinerary/itinerary.service.ts).                               *)
(*                                                                         *)
(* Every handler is an async function.  Between two awaits its code runs   *)
(* without interruption, so one action of the model is one awaited call    *)
(* (a repository read or write, a provider call) together with the         *)
(* synchronous code that follows it up to the next await.  Handlers of     *)
(* different requests interleave at these points only.                     *)
(*                                                                         *)
(* A repository save writes the handler's in-memory entity over the row:   *)
(* there is no version check and no transaction in the service.            *)
(***************************************************************************)
EXTENDS Integers, Sequences, FiniteSets, TLC

(***************************************************************************)
(* Bounds of the model.                                                    *)
(***************************************************************************)
MaxWithdrawals == 2
MaxInFlight == 2
MaxItems == 2
MaxBalance == 15
MaxItineraries == 1
MaxDayRows == 2
MaxDtoDays == 2
MaxTotalDays == 2
InitBalance == 5

(* wallet.service.ts:61  if (amount < 5) *)
MinWithdrawal == 5

Creators == {"alice"}
Amounts == {0, 4, 5}
Clients == {"c1", "c2"}
Ticks == {"t1", "t2"}
Procs == Clients \cup Ticks

(***************************************************************************)
(* Strings that the code case-maps (provider status strings) are sequences *)
(* of one-character strings, so that toLowerCase and toUpperCase are       *)
(* computed character by character.  A null or undefined status is the     *)
(* one-element sequence Null, which no string of characters equals.        *)
(***************************************************************************)
UpperCaseLetters == <<"A", "B", "C", "D", "E", "F", "G", "H", "I", "J", "K", "L", "M", "N", "O", "P", "Q", "R", "S", "T", "U", "V", "W", "X", "Y", "Z">>
LowerCaseLetters == <<"a", "b", "c", "d", "e", "f", "g", "h", "i", "j", "k", "l", "m", "n", "o", "p", "q", "r", "s", "t", "u", "v", "w", "x", "y", "z">>
Null == <<"(null)">>

s_success == <<"s", "u", "c", "c", "e", "s", "s">>
s_completed == <<"c", "o", "m", "p", "l", "e", "t", "e", "d">>
s_claimed == <<"c", "l", "a", "i", "m", "e", "d">>
s_failed == <<"f", "a", "i", "l", "e", "d">>
s_returned == <<"r", "e", "t", "u", "r", "n", "e", "d">>
s_refunded == <<"r", "e", "f", "u", "n", "d", "e", "d">>
s_blocked == <<"b", "l", "o", "c", "k", "e", "d">>
s_pending == <<"p", "e", "n", "d", "i", "n", "g">>
s_unclaimed == <<"u", "n", "c", "l", "a", "i", "m", "e", "d">>
s_onhold == <<"o", "n", "h", "o", "l", "d">>
s_reversed == <<"r", "e", "v", "e", "r", "s", "e", "d">>
s_weird_status == <<"w", "e", "i", "r", "d", "_", "s", "t", "a", "t", "u", "s">>
s_success_spaced == <<"s", "u", "c", "c", "e", "s", "s", " ">>
S_SUCCESS == <<"S", "U", "C", "C", "E", "S", "S">>
S_FAILED == <<"F", "A", "I", "L", "E", "D">>
S_PENDING == <<"P", "E", "N", "D", "I", "N", "G">>
S_UNKNOWN == <<"U", "N", "K", "N", "O", "W", "N">>

LetterIndex(table, c) == CHOOSE i \in 1..26 : table[i] = c

(* The lower-case letter of each upper-case letter, and the converse. *)
LowerOf ==
    [c \in {UpperCaseLetters[i] : i \in 1..26} |->
        LowerCaseLetters[LetterIndex(UpperCaseLetters, c)]]
UpperOf ==
    [c \in {LowerCaseLetters[i] : i \in 1..26} |->
        UpperCaseLetters[LetterIndex(LowerCaseLetters, c)]]

(* String.prototype.toLowerCase, on the ASCII letters *)
toLowerCase(s) ==
    [i \in 1..Len(s) |-> IF s[i] \in DOMAIN LowerOf THEN LowerOf[s[i]] ELSE s[i]]

(* String.prototype.toUpperCase, on the ASCII letters *)
toUpperCase(s) ==
    [i \in 1..Len(s) |-> IF s[i] \in DOMAIN UpperOf THEN UpperOf[s[i]] ELSE s[i]]

(* JavaScript's !status for a string-or-null value *)
Falsy(s) == s = Null \/ s = <<>>

(* A plausible slip: the default branch returns the string as it came. *)
normalizeTransactionStatus_noUpper(status) ==
    IF Falsy(status) THEN S_UNKNOWN
    ELSE LET normalizedStatus == toLowerCase(status) IN
         CASE normalizedStatus \in {s_success, s_completed, s_claimed} -> S_SUCCESS
           [] normalizedStatus \in {s_failed, s_returned, s_refunded, s_blocked} -> S_FAILED
           [] normalizedStatus \in {s_pending, s_unclaimed} -> S_PENDING
           [] OTHER -> status

(* paypal.service.ts:138-160 *)
normalizeTransactionStatus(status) ==
    IF Falsy(status) THEN S_UNKNOWN
    ELSE LET normalizedStatus == toLowerCase(status) IN
         CASE normalizedStatus \in {s_success, s_completed, s_claimed} -> S_SUCCESS
           [] normalizedStatus \in {s_failed, s_returned, s_refunded, s_blocked} -> S_FAILED
           [] normalizedStatus \in {s_pending, s_unclaimed} -> S_PENDING
           [] OTHER -> toUpperCase(status)

(***************************************************************************)
(* The status strings the normalization is read on: every word the code    *)
(* names and some it does not, each in several letter cases, the empty     *)
(* string and null.                                                        *)
(***************************************************************************)
Words ==
    {s_success, s_completed, s_claimed, s_failed, s_returned, s_refunded,
     s_blocked, s_pending, s_unclaimed, s_onhold, s_reversed, s_weird_status,
     s_success_spaced, S_UNKNOWN}

(* The word with its first letter, or every second letter, in upper case. *)
Capitalized(s) == [i \in 1..Len(s) |-> IF i = 1 THEN toUpperCase(s)[i] ELSE s[i]]
Alternating(s) == [i \in 1..Len(s) |-> IF i % 2 = 0 THEN toUpperCase(s)[i] ELSE s[i]]

RawStatuses ==
    {Null, <<>>} \cup
    UNION {{toLowerCase(w), toUpperCase(w), Capitalized(toLowerCase(w)),
            Alternating(toLowerCase(w))} : w \in Words}

(***************************************************************************)
(* State.                                                                  *)
(*  walletRepository      the wallet table, one row per creator            *)
(*  withdrawalRepository  the withdrawal table; a row's id is its index    *)
(*  payouts               the provider's batches; a batch's id is its      *)
(*                        index, and a batch is the sequence of its items, *)
(*                        each with its id and its raw status              *)
(*  pc                    where each handler stands (the awaited call)     *)
(*  local                 each handler's frame:                            *)
(*    creatorId, amount     the arguments of the running call              *)
(*    wallet, withdrawal    its in-memory entities                         *)
(*    processingWithdrawals the rows a reconciliation tick has still to    *)
(*                          scan                                           *)
(*    item, itemStatus      what the provider answered for the withdrawal  *)
(*                          the handler is working on                      *)
(*    error                 the message of the error caught at line 109    *)
(*    balanceBefore         history: the wallet balance when the call (for *)
(*                          a tick: the scan of one withdrawal) began      *)
(*  credited              history: the total ever credited to each wallet  *)
(*  refunds               history: for each withdrawal id, how many times  *)
(*                        refundToWallet has saved the wallet credited     *)
(*                        with that withdrawal's amount (line 227)         *)
(*  result                history: what the call that the last step ended  *)
(*                        returned or threw ("" when it ended none)        *)
(*  lastSaved             history: the withdrawal row the last step saved  *)
(*                        (0 when it saved none)                           *)
(*  itineraryRepository     the itinerary table; a row's id is its index   *)
(*  itineraryDayRepository  the itinerary day table, a set of rows         *)
(*  itineraryCall           the running call of ItineraryService: where it *)
(*                          stands, its in-memory entities, the days of    *)
(*                          its dto it has still to handle, and, once it   *)
(*                          has ended, what it returned or threw           *)
(***************************************************************************)
VARIABLES walletRepository, withdrawalRepository, payouts, pc, local, credited,
          refunds, result, lastSaved,
          itineraryRepository, itineraryDayRepository, itineraryCall

walletVars == <<walletRepository, withdrawalRepository, payouts, pc, local,
                credited, refunds, result, lastSaved>>
itineraryVars == <<itineraryRepository, itineraryDayRepository, itineraryCall>>
vars == <<walletVars, itineraryVars>>

(* What is undefined or null in the source. *)
Undefined == -1

NoItinerary ==
    [id |-> 0, userId |-> "", totalDays |-> 0,
     estimatedTotalBudgetMin |-> 0, estimatedTotalBudgetMax |-> 0]
NoDay == [id |-> 0, itineraryId |-> 0, dayNumber |-> 0, budgetMin |-> 0, budgetMax |-> 0]
NoCall ==
    [pc |-> "idle", itinerary |-> NoItinerary, days |-> {}, dtoDays |-> <<>>,
     day |-> NoDay, dayId |-> 0, result |-> ""]

(* No ItineraryService call has been made. *)
ItineraryIdle ==
    /\ itineraryRepository = <<>>
    /\ itineraryDayRepository = {}
    /\ itineraryCall = NoCall

NoWallet == [found |-> FALSE, creatorId |-> "", balance |-> 0, paypalEmail |-> ""]
NoWithdrawal ==
    [id |-> 0, creatorId |-> "", amount |-> 0, status |-> "",
     paypalBatchId |-> 0, paypalPayoutItemId |-> 0, failureReason |-> ""]
NoItem == [matched |-> FALSE, payout_item_id |-> 0, transaction_status |-> Null]
NoFrame ==
    [creatorId |-> "", amount |-> 0, wallet |-> NoWallet, withdrawal |-> NoWithdrawal,
     processingWithdrawals |-> <<>>, item |-> NoItem, itemStatus |-> Null,
     error |-> "", balanceBefore |-> 0]

(* The service starts with no withdrawal and no handler running.  A       *)
(* creator either has no wallet yet, or has one with earnings credited to  *)
(* it and a PayPal account linked.  No handler of the service credits      *)
(* earnings, so credited never changes afterwards.                         *)
Init ==
    /\ walletRepository \in
          [Creators ->
              {NoWallet,
               [found |-> TRUE, creatorId |-> "alice", balance |-> InitBalance,
                paypalEmail |-> "alice@paypal"]}]
    /\ credited = [c \in Creators |-> walletRepository[c].balance]
    /\ withdrawalRepository = <<>>
    /\ payouts = <<>>
    /\ refunds = [id \in 1..MaxWithdrawals |-> 0]
    /\ ItineraryIdle
    /\ pc = [p \in Procs |-> "idle"]
    /\ local = [p \in Procs |-> NoFrame]
    /\ result = ""
    /\ lastSaved = 0

(* A handler may begin while fewer than MaxInFlight are running.  Handlers *)
(* of one kind differ in nothing but their name, so a call is given to c1  *)
(* unless c1 is busy, and t2 is the run of the scheduled job that begins   *)
(* while t1 is still running.                                              *)
InFlight == Cardinality({q \in Procs : pc[q] # "idle"})
MayBegin(p) ==
    /\ pc[p] = "idle"
    /\ InFlight < MaxInFlight
    /\ p = "c2" => pc["c1"] # "idle"
    /\ p = "t2" => pc["t1"] # "idle"

(* The handler goes to its next await. *)
Goto(p, label, frame) ==
    /\ pc' = [pc EXCEPT ![p] = label]
    /\ local' = [local EXCEPT ![p] = frame]
    /\ result' = ""

(* The call ends: it returns or throws r and its frame is dropped. *)
Return(p, r) ==
    /\ pc' = [pc EXCEPT ![p] = "idle"]
    /\ local' = [local EXCEPT ![p] = NoFrame]
    /\ result' = r

(* repository.save(entity) of an entity that has a row *)
SaveWallet(w) ==
    walletRepository' = [walletRepository EXCEPT ![w.creatorId] = w]
SaveWithdrawal(w) ==
    /\ withdrawalRepository' = [withdrawalRepository EXCEPT ![w.id] = w]
    /\ lastSaved' = w.id

(***************************************************************************)
(* requestWithdrawal, wallet.service.ts:56-120                             *)
(***************************************************************************)
(* Calls that have still to insert their withdrawal row. *)
Creating == {q \in Clients : pc[q] \in {"rw_saveDebit", "rw_saveWithdrawal"}}

(* A plausible slip: the comparison is made against a stale limit. *)
InsufficientBalance_off(amt, balance) == amt > balance + MinWithdrawal

(* wallet.service.ts:75  if (amount > wallet.balance) *)
InsufficientBalance(amt, balance) == amt > balance

(* A plausible slip: the minimum is one unit too low. *)
BelowMinimum_off(amt) == amt < MinWithdrawal - 1

(* wallet.service.ts:61  if (amount < 5) *)
BelowMinimum(amt) == amt < MinWithdrawal

(* What lines 57-77 throw for this amount and this wallet row, "" if none. *)
ValidationError(amt, w) ==
    IF amt <= 0 THEN "Invalid withdrawal amount"
    ELSE IF BelowMinimum(amt) THEN "Minimum withdrawal amount is $5"
    ELSE IF ~w.found THEN "Wallet not found"
    ELSE IF w.paypalEmail = "" THEN "Please link your PayPal account first"
    ELSE IF InsufficientBalance(amt, w.balance) THEN "Insufficient balance"
    ELSE ""

(* Lines 56-87: the amount checks, the wallet lookup and its checks, the   *)
(* withdrawal entity and the in-memory debit.  Nothing is awaited before   *)
(* findOne, so the call begins with that read.                             *)
requestWithdrawal(p, c, amt) ==
    /\ MayBegin(p)
    /\ Len(withdrawalRepository) + Cardinality(Creating) < MaxWithdrawals
    /\ LET w == walletRepository[c] IN
       IF ValidationError(amt, w) # ""
       THEN Return(p, ValidationError(amt, w))
       ELSE Goto(p, "rw_saveDebit",
                 [NoFrame EXCEPT
                    !.creatorId = c,
                    !.amount = amt,
                    !.balanceBefore = w.balance,
                    !.wallet = [w EXCEPT !.balance = w.balance - amt],
                    !.withdrawal = [NoWithdrawal EXCEPT !.creatorId = c,
                                                        !.amount = amt,
                                                        !.status = "PENDING"]])
    /\ lastSaved' = 0
    /\ UNCHANGED <<itineraryVars, credited, refunds, walletRepository, withdrawalRepository, payouts>>

(* Line 89: await this.walletRepository.save(wallet) *)
rw_saveDebit(p) ==
    /\ pc[p] = "rw_saveDebit"
    /\ SaveWallet(local[p].wallet)
    /\ Goto(p, "rw_saveWithdrawal", local[p])
    /\ lastSaved' = 0
    /\ UNCHANGED <<itineraryVars, credited, refunds, withdrawalRepository, payouts>>

(* Line 90: const savedWithdrawal = await this.withdrawalRepository.save(withdrawal) *)
rw_saveWithdrawal(p) ==
    /\ pc[p] = "rw_saveWithdrawal"
    /\ LET id == Len(withdrawalRepository) + 1
           savedWithdrawal == [local[p].withdrawal EXCEPT !.id = id] IN
       /\ withdrawalRepository' = Append(withdrawalRepository, savedWithdrawal)
       /\ lastSaved' = id
       /\ Goto(p, "rw_sendPayout", [local[p] EXCEPT !.withdrawal = savedWithdrawal])
    /\ UNCHANGED <<itineraryVars, credited, refunds, walletRepository, payouts>>

(* Lines 93-101 with paypal.service.ts:39-64: the provider accepts the     *)
(* payout.  The response's batch_header may lack payout_batch_id (only the *)
(* header itself is checked, line 46) and may carry no items (line 54).    *)
rw_sendPayoutOk(p, hasBatchId, hasItemId) ==
    /\ pc[p] = "rw_sendPayout"
    /\ hasItemId => hasBatchId
    /\ LET k == Len(payouts) + 1 IN
       /\ payouts' = Append(payouts, << [payout_item_id |-> k,
                                         transaction_status |-> S_PENDING] >>)
       /\ Goto(p, "rw_saveProcessing",
               [local[p] EXCEPT
                  !.withdrawal.paypalBatchId = IF hasBatchId THEN k ELSE 0,
                  !.withdrawal.paypalPayoutItemId = IF hasItemId THEN k ELSE 0,
                  !.withdrawal.status = "PROCESSING"])
    /\ lastSaved' = 0
    /\ UNCHANGED <<itineraryVars, credited, refunds, walletRepository, withdrawalRepository>>

(* A plausible slip: the catch block credits nothing back. *)
Restored_none(w, amt) == w

(* Line 111: wallet.balance += amount *)
Restored(w, amt) == [w EXCEPT !.balance = w.balance + amt]

(* Lines 93, 109-111 with paypal.service.ts:65-84: sendPayout throws       *)
(* 'PayPal payout failed: ...'; the catch block credits the in-memory      *)
(* wallet back.                                                            *)
rw_sendPayoutFails(p) ==
    /\ pc[p] = "rw_sendPayout"
    /\ Goto(p, "rw_saveRefund",
            [local[p] EXCEPT !.error = "PayPal payout failed",
                             !.wallet = Restored(@, local[p].amount)])
    /\ lastSaved' = 0
    /\ UNCHANGED <<itineraryVars, credited, refunds, walletRepository, withdrawalRepository, payouts>>

(* Lines 103-108: the PROCESSING row is saved and the call returns. *)
rw_saveProcessing(p) ==
    /\ pc[p] = "rw_saveProcessing"
    /\ SaveWithdrawal(local[p].withdrawal)
    /\ Return(p, "Withdrawal request submitted successfully")
    /\ UNCHANGED <<itineraryVars, credited, refunds, walletRepository, payouts>>

(* Line 103 throws (the database refuses or loses the write): the payout   *)
(* has been submitted, and control enters the same catch block (line 109), *)
(* which credits the in-memory wallet back (line 111).                     *)
rw_saveProcessingFails(p) ==
    /\ pc[p] = "rw_saveProcessing"
    /\ Goto(p, "rw_saveRefund",
            [local[p] EXCEPT !.error = "QueryFailedError",
                             !.wallet = Restored(@, local[p].amount)])
    /\ lastSaved' = 0
    /\ UNCHANGED <<itineraryVars, credited, refunds, walletRepository, withdrawalRepository, payouts>>

(* Lines 112-115: the credited wallet is saved; the in-memory withdrawal   *)
(* becomes FAILED with error.message as its reason.                        *)
rw_saveRefund(p) ==
    /\ pc[p] = "rw_saveRefund"
    /\ SaveWallet(local[p].wallet)
    /\ Goto(p, "rw_saveFailed",
            [local[p] EXCEPT !.withdrawal.status = "FAILED",
                             !.withdrawal.failureReason = local[p].error])
    /\ lastSaved' = 0
    /\ UNCHANGED <<itineraryVars, credited, refunds, withdrawalRepository, payouts>>

(* Lines 116-118: the FAILED row is saved and the error is thrown. *)
rw_saveFailed(p) ==
    /\ pc[p] = "rw_saveFailed"
    /\ SaveWithdrawal(local[p].withdrawal)
    /\ Return(p, "Withdrawal failed")
    /\ UNCHANGED <<itineraryVars, credited, refunds, walletRepository, payouts>>

(***************************************************************************)
(* createWallet, wallet.service.ts:25-33, and linkPayPal, lines 43-54      *)
(***************************************************************************)
(* Lines 26-31: the lookup; an existing wallet is refused. *)
createWallet(p, c) ==
    /\ MayBegin(p)
    /\ IF walletRepository[c].found
       THEN Return(p, "Wallet already exists for this creator.")
       ELSE Goto(p, "cw_save",
                 [NoFrame EXCEPT
                    !.creatorId = c,
                    !.wallet = [found |-> TRUE, creatorId |-> c, balance |-> 0,
                                paypalEmail |-> ""]])
    /\ lastSaved' = 0
    /\ UNCHANGED <<itineraryVars, credited, refunds, walletRepository, withdrawalRepository, payouts>>

(* Line 32: the new wallet is inserted.  The creator identifies the wallet *)
(* (one row per creator): a second insert for the same creator is refused  *)
(* by the table.                                                           *)
cw_save(p) ==
    /\ pc[p] = "cw_save"
    /\ IF walletRepository[local[p].creatorId].found
       THEN /\ Return(p, "QueryFailedError")
            /\ UNCHANGED walletRepository
       ELSE /\ SaveWallet(local[p].wallet)
            /\ Return(p, "wallet")
    /\ lastSaved' = 0
    /\ UNCHANGED <<itineraryVars, credited, refunds, withdrawalRepository, payouts>>

(* Lines 44-51: the lookup; the in-memory wallet gets the email. *)
linkPayPal(p, c, paypalEmail) ==
    /\ MayBegin(p)
    /\ LET w == walletRepository[c] IN
       IF ~w.found
       THEN Return(p, "Wallet not found")
       ELSE Goto(p, "lp_save",
                 [NoFrame EXCEPT !.creatorId = c,
                                 !.wallet = [w EXCEPT !.paypalEmail = paypalEmail]])
    /\ lastSaved' = 0
    /\ UNCHANGED <<itineraryVars, credited, refunds, walletRepository, withdrawalRepository, payouts>>

(* Line 53: return this.walletRepository.save(wallet) *)
lp_save(p) ==
    /\ pc[p] = "lp_save"
    /\ SaveWallet(local[p].wallet)
    /\ Return(p, "wallet")
    /\ lastSaved' = 0
    /\ UNCHANGED <<itineraryVars, credited, refunds, withdrawalRepository, payouts>>

(***************************************************************************)
(* The provider.  A payout's item is PENDING when the payout is accepted;  *)
(* the provider may put it on hold, and in the end gives it a status that  *)
(* normalizes to SUCCESS or FAILED, which it keeps.  sendPayout submits    *)
(* one item per batch (paypal.service.ts:22-33), and the item of batch k   *)
(* has id k; the handlers take whatever list of items a batch answers      *)
(* with (wallet.service.ts:150-166).                                       *)
(***************************************************************************)
S_ONHOLD == toUpperCase(s_onhold)
SettledStatuses == {S_SUCCESS, toUpperCase(s_returned)}

Settled(raw) == normalizeTransactionStatus(raw) \in {S_SUCCESS, S_FAILED}

(* The raw status of the first item of batch k. *)
RawStatus(k) == payouts[k][1].transaction_status

ProviderUpdate(k, raw) ==
    /\ k \in 1..Len(payouts)
    /\ payouts[k] # <<>>
    /\ raw # RawStatus(k)
    /\ ~Settled(RawStatus(k))
    /\ payouts' = [payouts EXCEPT ![k][1].transaction_status = raw]
    /\ result' = ""
    /\ lastSaved' = 0
    /\ UNCHANGED <<itineraryVars, credited, refunds, walletRepository, withdrawalRepository, pc, local>>

ProviderHolds(k) == ProviderUpdate(k, S_ONHOLD)

(* The item of payout k gets any status string. *)
ProviderReports(k, raw) == ProviderUpdate(k, raw)

ProviderSettles(k, raw) == ProviderUpdate(k, raw)

(* paypal.service.ts:98, 110-120: the items of batch k, each with its      *)
(* transaction_status normalized.                                          *)
getPayoutStatus(k) ==
    [i \in 1..Len(payouts[k]) |->
        [matched |-> TRUE,
         payout_item_id |-> payouts[k][i].payout_item_id,
         transaction_status |->
             normalizeTransactionStatus(payouts[k][i].transaction_status)]]

(* Where the provider holds the item with this id: batch and position. *)
ItemsWithId(itemId) ==
    {ki \in (1..Len(payouts)) \X (1..MaxItems) :
        /\ ki[2] <= Len(payouts[ki[1]])
        /\ payouts[ki[1]][ki[2]].payout_item_id = itemId}

(* paypal.service.ts:164-176: the normalized status of the item with this  *)
(* id; the request fails for an id the provider does not know.             *)
getPayoutItemStatus(itemId) ==
    LET ki == CHOOSE x \in ItemsWithId(itemId) : TRUE IN
    normalizeTransactionStatus(payouts[ki[1]][ki[2]].transaction_status)

(***************************************************************************)
(* updateWithdrawalFromItem and refundToWallet, wallet.service.ts:199-230  *)
(***************************************************************************)
(* Lines 200-210: the status updateWithdrawalFromItem gives the withdrawal *)
(* for an item status; PROCESSING when it leaves the withdrawal alone.     *)
StatusFromItem(transaction_status) ==
    LET status == IF transaction_status = Null THEN Null
                  ELSE toLowerCase(transaction_status) IN
    IF status \in {s_success, s_completed, s_claimed} THEN "COMPLETED"
    ELSE IF status \in {s_failed, s_returned, s_refunded, s_blocked} THEN "FAILED"
    ELSE "PROCESSING"

(* A handler is done with one withdrawal: a tick goes to the head of its   *)
(* loop (line 140), forceCheckWithdrawal returns (line 257).               *)
Done(p, frame) ==
    IF p \in Ticks THEN Goto(p, "loop", frame)
    ELSE Return(p, "Status check completed")

(* Lines 206 and 175: the COMPLETED row is saved. *)
uw_saveCompleted(p) ==
    /\ pc[p] = "uw_saveCompleted"
    /\ SaveWithdrawal(local[p].withdrawal)
    /\ Done(p, local[p])
    /\ UNCHANGED <<itineraryVars, credited, refunds, walletRepository, payouts>>

(* A plausible slip: the refund credits nothing. *)
Refunded_none(w, amt) == w

(* Line 226: wallet.balance += withdrawal.amount *)
Refunded(w, amt) == [w EXCEPT !.balance = w.balance + amt]

(* Lines 221-226: refundToWallet reads the wallet and credits it in memory. *)
rf_findWallet(p) ==
    /\ pc[p] = "rf_findWallet"
    /\ LET w == walletRepository[local[p].withdrawal.creatorId] IN
       IF w.found
       THEN Goto(p, "rf_saveWallet",
                 [local[p] EXCEPT !.wallet = Refunded(w, local[p].withdrawal.amount)])
       ELSE Goto(p, "uw_saveFailed", local[p])
    /\ lastSaved' = 0
    /\ UNCHANGED <<itineraryVars, credited, refunds, walletRepository, withdrawalRepository, payouts>>

(* Line 227: await this.walletRepository.save(wallet) *)
rf_saveWallet(p) ==
    /\ pc[p] = "rf_saveWallet"
    /\ SaveWallet(local[p].wallet)
    /\ refunds' = [refunds EXCEPT ![local[p].withdrawal.id] = @ + 1]
    /\ Goto(p, "uw_saveFailed", local[p])
    /\ lastSaved' = 0
    /\ UNCHANGED <<itineraryVars, credited, withdrawalRepository, payouts>>

(* Lines 215 and 182: the FAILED row is saved. *)
uw_saveFailed(p) ==
    /\ pc[p] = "uw_saveFailed"
    /\ SaveWithdrawal(local[p].withdrawal)
    /\ Done(p, local[p])
    /\ UNCHANGED <<itineraryVars, credited, refunds, walletRepository, payouts>>

(* The in-memory withdrawal after updateWithdrawalFromItem's synchronous   *)
(* part (lines 205, 210-211) or the item-level branch (174, 178-179).      *)
Marked(w, status) ==
    IF status = "COMPLETED" THEN [w EXCEPT !.status = "COMPLETED"]
    ELSE IF status = "FAILED"
    THEN [w EXCEPT !.status = "FAILED", !.failureReason = "PayPal transaction failed"]
    ELSE w

(* The await that follows Marked. *)
SaveStep(status) ==
    IF status = "COMPLETED" THEN "uw_saveCompleted" ELSE "rf_findWallet"

(***************************************************************************)
(* updateWithdrawalStatuses, wallet.service.ts:130-197                     *)
(***************************************************************************)
(* Lines 134-136: find({ where: { status: 'PROCESSING' } }) *)
updateWithdrawalStatuses(t) ==
    /\ MayBegin(t)
    /\ Goto(t, "loop",
            [NoFrame EXCEPT !.processingWithdrawals =
                SelectSeq(withdrawalRepository, LAMBDA w : w.status = "PROCESSING")])
    /\ lastSaved' = 0
    /\ UNCHANGED <<itineraryVars, credited, refunds, walletRepository, withdrawalRepository, payouts>>

(* The rows still to scan, from the first that has a batch id (line 141). *)
RECURSIVE SkipNoBatch(_)
SkipNoBatch(ws) ==
    IF ws = <<>> \/ Head(ws).paypalBatchId # 0 THEN ws ELSE SkipNoBatch(Tail(ws))

(* Lines 140-145: the next withdrawal with a batch id is taken and its     *)
(* batch status requested; with none left the tick ends (line 196).        *)
loop(t) ==
    /\ pc[t] = "loop"
    /\ LET ws == SkipNoBatch(local[t].processingWithdrawals) IN
       IF ws = <<>>
       THEN Return(t, "Withdrawal status update completed")
       ELSE Goto(t, "getPayoutStatus",
                 [NoFrame EXCEPT
                    !.processingWithdrawals = Tail(ws),
                    !.withdrawal = Head(ws),
                    !.balanceBefore = walletRepository[Head(ws).creatorId].balance])
    /\ lastSaved' = 0
    /\ UNCHANGED <<itineraryVars, credited, refunds, walletRepository, withdrawalRepository, payouts>>

(* A plausible slip: the first item of the batch is taken, whatever its id. *)
FindItem_first(w, items, n) == IF items = <<>> THEN NoItem ELSE Head(items)

(* Lines 150-166: the first item of the batch whose payout_item_id is the  *)
(* withdrawal's, or, for a withdrawal without item id, the item of a       *)
(* one-item batch; NoItem when the loop ends without a match.              *)
RECURSIVE FindItem(_, _, _)
FindItem(w, items, n) ==
    IF items = <<>> THEN NoItem
    ELSE IF w.paypalPayoutItemId # 0 /\ Head(items).payout_item_id = w.paypalPayoutItemId
    THEN Head(items)
    ELSE IF w.paypalPayoutItemId = 0 /\ n = 1
    THEN Head(items)
    ELSE FindItem(w, Tail(items), n)

(* Lines 252-253: forceCheckWithdrawal takes the first item of the batch. *)
FirstItem(items) == IF Len(items) > 0 THEN items[1] ELSE NoItem

(* Line 168: the item-level check is made for a withdrawal that has an     *)
(* item id and is still PROCESSING in memory.                              *)
NeedsItemCheck(w) == w.paypalPayoutItemId # 0 /\ w.status = "PROCESSING"

(* Lines 145-168 (a tick) and 250-257 (forceCheckWithdrawal): the batch    *)
(* status arrives and the chosen item is applied to the withdrawal.        *)
getPayoutStatusOk(p) ==
    /\ pc[p] = "getPayoutStatus"
    /\ LET items == getPayoutStatus(local[p].withdrawal.paypalBatchId)
           it == IF p \in Ticks
                 THEN FindItem(local[p].withdrawal, items, Len(items))
                 ELSE FirstItem(items)
           status == IF it.matched THEN StatusFromItem(it.transaction_status)
                     ELSE "PROCESSING"
           frame == [local[p] EXCEPT !.item = it,
                                     !.withdrawal = Marked(@, status)] IN
       IF status # "PROCESSING" THEN Goto(p, SaveStep(status), frame)
       ELSE IF p \in Ticks /\ NeedsItemCheck(frame.withdrawal)
       THEN Goto(p, "getPayoutItemStatus", frame)
       ELSE Done(p, frame)
    /\ lastSaved' = 0
    /\ UNCHANGED <<itineraryVars, credited, refunds, walletRepository, withdrawalRepository, payouts>>

(* paypal.service.ts:123-135: getPayoutStatus throws.  A tick logs it      *)
(* (line 190) and goes on; forceCheckWithdrawal rethrows (line 259).       *)
getPayoutStatusFails(p) ==
    /\ pc[p] = "getPayoutStatus"
    /\ IF p \in Ticks THEN Goto(p, "loop", local[p])
       ELSE Return(p, "Failed to check withdrawal status")
    /\ lastSaved' = 0
    /\ UNCHANGED <<itineraryVars, credited, refunds, walletRepository, withdrawalRepository, payouts>>

(* Lines 170-184: the item's own status arrives and is applied. *)
getPayoutItemStatusOk(t) ==
    /\ pc[t] = "getPayoutItemStatus"
    /\ ItemsWithId(local[t].withdrawal.paypalPayoutItemId) # {}
    /\ LET st == getPayoutItemStatus(local[t].withdrawal.paypalPayoutItemId)
           status == IF st = S_SUCCESS THEN "COMPLETED"
                     ELSE IF st = S_FAILED THEN "FAILED"
                     ELSE "PROCESSING"
           frame == [local[t] EXCEPT !.itemStatus = st,
                                     !.withdrawal = Marked(@, status)] IN
       IF status # "PROCESSING" THEN Goto(t, SaveStep(status), frame)
       ELSE Goto(t, "loop", frame)
    /\ lastSaved' = 0
    /\ UNCHANGED <<itineraryVars, credited, refunds, walletRepository, withdrawalRepository, payouts>>

(* paypal.service.ts:181-186: getPayoutItemStatus throws; line 185 logs it. *)
getPayoutItemStatusFails(t) ==
    /\ pc[t] = "getPayoutItemStatus"
    /\ Goto(t, "loop", local[t])
    /\ lastSaved' = 0
    /\ UNCHANGED <<itineraryVars, credited, refunds, walletRepository, withdrawalRepository, payouts>>

(* A repository call of updateWithdrawalFromItem, of refundToWallet or of   *)
(* the item-level branch throws (lines 175, 182, 206, 215, 221, 227) and   *)
(* writes nothing.  In a tick the error is caught and logged (lines 185 or *)
(* 190) and the loop goes on; forceCheckWithdrawal rethrows it (line 259). *)
(* A row whose FAILED status was not saved is refunded again by the next   *)
(* check, so calls are let fail only while the balance is below            *)
(* MaxBalance.                                                             *)
RepositoryCalls == {"uw_saveCompleted", "rf_findWallet", "rf_saveWallet", "uw_saveFailed"}

(* A plausible slip: the tick has no try around the work on one withdrawal *)
(* and the error leaves the handler.                                       *)
Caught_rethrown(p) == Return(p, "Failed to check withdrawal status")

(* Lines 185-187 and 190-192 (a tick: log, next iteration of line 140);    *)
(* lines 258-260 (forceCheckWithdrawal: rethrow).                          *)
Caught(p) ==
    IF p \in Ticks THEN Goto(p, "loop", local[p])
    ELSE Return(p, "Failed to check withdrawal status")

repositoryFails(p) ==
    /\ pc[p] \in RepositoryCalls
    /\ walletRepository[local[p].withdrawal.creatorId].balance < MaxBalance
    /\ Caught(p)
    /\ lastSaved' = 0
    /\ UNCHANGED <<itineraryVars, credited, refunds, walletRepository, withdrawalRepository, payouts>>

(***************************************************************************)
(* forceCheckWithdrawal, wallet.service.ts:232-261                         *)
(***************************************************************************)
(* A plausible slip: the status of the row is not looked at. *)
ForceCheckRefusal_noStatus(withdrawalId) ==
    IF withdrawalId > Len(withdrawalRepository) THEN "Withdrawal not found"
    ELSE IF withdrawalRepository[withdrawalId].paypalBatchId = 0
    THEN "No PayPal batch ID found"
    ELSE ""

(* What lines 237-247 answer for the row read, "" when the check goes on. *)
ForceCheckRefusal(withdrawalId) ==
    IF withdrawalId > Len(withdrawalRepository) THEN "Withdrawal not found"
    ELSE IF withdrawalRepository[withdrawalId].status # "PROCESSING"
    THEN "Withdrawal is not in processing status"
    ELSE IF withdrawalRepository[withdrawalId].paypalBatchId = 0
    THEN "No PayPal batch ID found"
    ELSE ""

(* Lines 233-250: the row is read; the refusals; the batch status is       *)
(* requested.                                                              *)
forceCheckWithdrawal(p, withdrawalId) ==
    /\ MayBegin(p)
    /\ IF ForceCheckRefusal(withdrawalId) # ""
       THEN Return(p, ForceCheckRefusal(withdrawalId))
       ELSE LET w == withdrawalRepository[withdrawalId] IN
            Goto(p, "getPayoutStatus",
                 [NoFrame EXCEPT
                    !.withdrawal = w,
                    !.balanceBefore = walletRepository[w.creatorId].balance])
    /\ lastSaved' = 0
    /\ UNCHANGED <<itineraryVars, credited, refunds, walletRepository, withdrawalRepository, payouts>>

(***************************************************************************)
(* ItineraryService, itinerary.service.ts.  One call at a time.  Dates are *)
(* kept as the number of days they span (differenceInDays + 1, lines 56    *)
(* and 175): below 1 when the end date is before the start date.  The post *)
(* of every itinerary belongs to PostOwner.                                *)
(***************************************************************************)
Users == {"alice", "bob"}
PostOwner == "alice"
Budgets == {<<Undefined, Undefined>>, <<1, 2>>}
DayNumbers == {Undefined, 1, 2}

(* A day of a dto: id 0 when the dto names no existing day.  A day that is *)
(* to be created has a day number.                                         *)
DayDtos ==
    {d \in {[id |-> i, dayNumber |-> n, budgetMin |-> b[1], budgetMax |-> b[2]] :
               i \in 0..MaxDayRows, n \in DayNumbers, b \in Budgets} :
        d.id = 0 => d.dayNumber # Undefined}
DtoDays == UNION {[1..n -> DayDtos] : n \in 0..MaxDtoDays}
NewDays(days) == SelectSeq(days, LAMBDA d : d.id = 0)

(* x || 0 *)
OrZero(x) == IF x = Undefined THEN 0 ELSE x

(* Lines 73-75 and 197-199: Math.max(...days.map((day) => day.dayNumber || 0)) *)
RECURSIVE maxDayNumber(_)
maxDayNumber(days) ==
    IF days = <<>> THEN 0
    ELSE LET rest == maxDayNumber(Tail(days))
             n == OrZero(Head(days).dayNumber)
         IN  IF n > rest THEN n ELSE rest

(* Lines 261-267 and 409-415: the sums of Number(day.budgetMin) || 0 and   *)
(* of Number(day.budgetMax) || 0 over the rows found.                      *)
RECURSIVE totalMinBudget(_)
totalMinBudget(days) ==
    IF days = {} THEN 0
    ELSE LET day == CHOOSE d \in days : TRUE
         IN  OrZero(day.budgetMin) + totalMinBudget(days \ {day})

RECURSIVE totalMaxBudget(_)
totalMaxBudget(days) ==
    IF days = {} THEN 0
    ELSE LET day == CHOOSE d \in days : TRUE
         IN  OrZero(day.budgetMax) + totalMaxBudget(days \ {day})

(* find({ where: { itineraryId } }) *)
DaysOf(itineraryId) == {d \in itineraryDayRepository : d.itineraryId = itineraryId}

(* The id the table gives a new row. *)
FreshId(rows) ==
    CHOOSE i \in 1..(Cardinality(rows) + 1) : \A d \in rows : d.id # i

(* Lines 90-97 and 244-251: itineraryDayRepository.create({...}) *)
CreatedDay(dayDto, itineraryId) ==
    [id |-> 0, itineraryId |-> itineraryId, dayNumber |-> dayDto.dayNumber,
     budgetMin |-> OrZero(dayDto.budgetMin), budgetMax |-> OrZero(dayDto.budgetMax)]

(* itineraryDayRepository.save(day): an insert for a new entity, an update *)
(* of its row otherwise.                                                   *)
SavedDay(rows, day) ==
    IF day.id = 0 THEN rows \cup {[day EXCEPT !.id = FreshId(rows)]}
    ELSE {d \in rows : d.id # day.id} \cup {day}

(* Line 102: itineraryDayRepository.save(dayEntities) *)
RECURSIVE SavedDays(_, _, _)
SavedDays(rows, days, itineraryId) ==
    IF days = <<>> THEN rows
    ELSE SavedDays(SavedDay(rows, CreatedDay(Head(days), itineraryId)),
                   Tail(days), itineraryId)

(* The call goes to its next await; the call ends, returning or throwing r. *)
ItineraryGoto(label, frame) == itineraryCall' = [frame EXCEPT !.pc = label]
ItineraryEnds(r) == itineraryCall' = [NoCall EXCEPT !.result = r]

(* itineraryRepository.save(itinerary) of an itinerary that has a row *)
SaveItinerary(itinerary) ==
    itineraryRepository' = [itineraryRepository EXCEPT ![itinerary.id] = itinerary]

(* Lines 34-68: the post and its owner, the dates, the new entity with     *)
(* both totals 0.                                                          *)
create(userId, postFound, totalDays, days) ==
    /\ itineraryCall.pc = "idle"
    /\ Len(itineraryRepository) < MaxItineraries
    /\ Cardinality(itineraryDayRepository) + Len(days) <= MaxDayRows
    /\ NewDays(days) = days
    /\ IF ~postFound THEN ItineraryEnds("Post not found")
       ELSE IF PostOwner # userId
       THEN ItineraryEnds("You can only create itineraries for your own posts")
       ELSE IF totalDays < 1 THEN ItineraryEnds("End date must be after start date")
       ELSE ItineraryGoto("c_saveItinerary",
                [NoCall EXCEPT !.itinerary = [NoItinerary EXCEPT !.userId = userId,
                                                                 !.totalDays = totalDays],
                               !.dtoDays = days])
    /\ UNCHANGED <<itineraryRepository, itineraryDayRepository, walletVars>>

(* Lines 70-100, 109: the itinerary is inserted; the day numbers are       *)
(* checked and the totals summed over the dto's days.                      *)
c_saveItinerary ==
    /\ itineraryCall.pc = "c_saveItinerary"
    /\ LET savedItinerary == [itineraryCall.itinerary EXCEPT
                                 !.id = Len(itineraryRepository) + 1]
           days == itineraryCall.dtoDays
       IN  /\ itineraryRepository' = Append(itineraryRepository, savedItinerary)
           /\ IF days = <<>> THEN ItineraryEnds("itinerary")
              ELSE IF maxDayNumber(days) > savedItinerary.totalDays
              THEN ItineraryEnds("Day number cannot exceed the total days of the trip")
              ELSE ItineraryGoto("c_saveDays",
                       [itineraryCall EXCEPT !.itinerary = savedItinerary])
    /\ UNCHANGED <<itineraryDayRepository, walletVars>>

(* Lines 102-105: the days are inserted; the in-memory itinerary gets the  *)
(* totals.                                                                 *)
c_saveDays ==
    /\ itineraryCall.pc = "c_saveDays"
    /\ LET days == itineraryCall.dtoDays
           created == SavedDays({}, days, itineraryCall.itinerary.id)
       IN  /\ itineraryDayRepository' =
                 SavedDays(itineraryDayRepository, days, itineraryCall.itinerary.id)
           /\ ItineraryGoto("c_saveTotals",
                 [itineraryCall EXCEPT
                     !.itinerary.estimatedTotalBudgetMin = totalMinBudget(created),
                     !.itinerary.estimatedTotalBudgetMax = totalMaxBudget(created)])
    /\ UNCHANGED <<itineraryRepository, walletVars>>

(* Lines 106, 109 *)
c_saveTotals ==
    /\ itineraryCall.pc = "c_saveTotals"
    /\ SaveItinerary(itineraryCall.itinerary)
    /\ ItineraryEnds("itinerary")
    /\ UNCHANGED <<itineraryDayRepository, walletVars>>

(* Lines 147-192: the itinerary with its days is read; the owner and the   *)
(* dates are checked.  totalDays is Undefined when the dto has no date.    *)
update(id, userId, totalDays, days) ==
    /\ itineraryCall.pc = "idle"
    /\ Cardinality(itineraryDayRepository) + Len(NewDays(days)) <= MaxDayRows
    /\ IF id > Len(itineraryRepository) THEN ItineraryEnds("Itinerary not found")
       ELSE IF PostOwner # userId
       THEN ItineraryEnds("You can only update your own itineraries")
       ELSE IF totalDays # Undefined /\ totalDays < 1
       THEN ItineraryEnds("End date must be after start date")
       ELSE ItineraryGoto("u_saveItinerary",
                [NoCall EXCEPT
                    !.itinerary = [itineraryRepository[id] EXCEPT
                                      !.totalDays = IF totalDays = Undefined THEN @
                                                    ELSE totalDays],
                    !.days = DaysOf(id),
                    !.dtoDays = days])
    /\ UNCHANGED <<itineraryRepository, itineraryDayRepository, walletVars>>

(* Lines 194-204, 275: the itinerary is saved; the day numbers of the dto  *)
(* are checked.                                                            *)
u_saveItinerary ==
    /\ itineraryCall.pc = "u_saveItinerary"
    /\ SaveItinerary(itineraryCall.itinerary)
    /\ IF itineraryCall.dtoDays = <<>> THEN ItineraryEnds("itinerary")
       ELSE IF maxDayNumber(itineraryCall.dtoDays) > itineraryCall.itinerary.totalDays
       THEN ItineraryEnds("Day number cannot exceed the total days of the trip")
       ELSE ItineraryGoto("u_day", itineraryCall)
    /\ UNCHANGED <<itineraryDayRepository, walletVars>>

(* Lines 218-227: the fields the dto defines are set on the existing day. *)
Changed(existingDay, dayDto) ==
    [existingDay EXCEPT
        !.dayNumber = IF dayDto.dayNumber # Undefined THEN dayDto.dayNumber ELSE @,
        !.budgetMin = IF dayDto.budgetMin # Undefined THEN dayDto.budgetMin ELSE @,
        !.budgetMax = IF dayDto.budgetMax # Undefined THEN dayDto.budgetMax ELSE @]

(* Lines 206-227 and 231-251: the next day of the dto.  A day with an id   *)
(* is looked up and changed in memory; a day without id is refused when    *)
(* the days read at line 147 have its number, and created otherwise.       *)
u_day ==
    /\ itineraryCall.pc = "u_day"
    /\ LET dayDto == Head(itineraryCall.dtoDays)
           found == {d \in DaysOf(itineraryCall.itinerary.id) : d.id = dayDto.id}
       IN  IF dayDto.id # 0
           THEN IF found = {}
                THEN ItineraryEnds("Day with ID not found in this itinerary")
                ELSE ItineraryGoto("u_saveDay",
                         [itineraryCall EXCEPT
                             !.day = Changed(CHOOSE d \in found : TRUE, dayDto)])
           ELSE IF \E d \in itineraryCall.days : d.dayNumber = dayDto.dayNumber
                THEN ItineraryEnds("Day number already exists in this itinerary")
                ELSE ItineraryGoto("u_saveDay",
                         [itineraryCall EXCEPT
                             !.day = CreatedDay(dayDto, itineraryCall.itinerary.id)])
    /\ UNCHANGED <<itineraryRepository, itineraryDayRepository, walletVars>>

(* Lines 229 and 253: the day is saved; the loop goes on (line 206) or     *)
(* ends.                                                                   *)
u_saveDay ==
    /\ itineraryCall.pc = "u_saveDay"
    /\ itineraryDayRepository' = SavedDay(itineraryDayRepository, itineraryCall.day)
    /\ LET rest == Tail(itineraryCall.dtoDays) IN
       ItineraryGoto(IF rest = <<>> THEN "u_findDays" ELSE "u_day",
                     [itineraryCall EXCEPT !.dtoDays = rest, !.day = NoDay])
    /\ UNCHANGED <<itineraryRepository, walletVars>>

(* The in-memory itinerary with the totals of the rows found. *)
WithTotals(itinerary, days) ==
    [itinerary EXCEPT !.estimatedTotalBudgetMin = totalMinBudget(days),
                      !.estimatedTotalBudgetMax = totalMaxBudget(days)]

(* Lines 257-270: the itinerary's days are read and summed. *)
u_findDays ==
    /\ itineraryCall.pc = "u_findDays"
    /\ ItineraryGoto("u_saveTotals",
          [itineraryCall EXCEPT
              !.itinerary = WithTotals(@, DaysOf(itineraryCall.itinerary.id))])
    /\ UNCHANGED <<itineraryRepository, itineraryDayRepository, walletVars>>

(* Lines 272, 275 *)
u_saveTotals ==
    /\ itineraryCall.pc = "u_saveTotals"
    /\ SaveItinerary(itineraryCall.itinerary)
    /\ ItineraryEnds("itinerary")
    /\ UNCHANGED <<itineraryDayRepository, walletVars>>

(* Lines 378-391: the itinerary is read and its owner checked. *)
deleteItineraryDay(itineraryId, dayId, userId) ==
    /\ itineraryCall.pc = "idle"
    /\ IF itineraryId > Len(itineraryRepository) THEN ItineraryEnds("Itinerary not found")
       ELSE IF PostOwner # userId
       THEN ItineraryEnds("You can only update your own itineraries")
       ELSE ItineraryGoto("d_findDay",
                [NoCall EXCEPT !.itinerary = itineraryRepository[itineraryId],
                               !.days = DaysOf(itineraryId),
                               !.dayId = dayId])
    /\ UNCHANGED <<itineraryRepository, itineraryDayRepository, walletVars>>

(* Lines 393-401: the day is looked up in the itinerary. *)
d_findDay ==
    /\ itineraryCall.pc = "d_findDay"
    /\ IF \E d \in DaysOf(itineraryCall.itinerary.id) : d.id = itineraryCall.dayId
       THEN ItineraryGoto("d_delete", itineraryCall)
       ELSE ItineraryEnds("Day with ID not found in this itinerary")
    /\ UNCHANGED <<itineraryRepository, itineraryDayRepository, walletVars>>

(* Line 403: itineraryDayRepository.delete({ id: dayId, itineraryId }) *)
d_delete ==
    /\ itineraryCall.pc = "d_delete"
    /\ itineraryDayRepository' =
          {d \in itineraryDayRepository :
              ~(d.id = itineraryCall.dayId /\ d.itineraryId = itineraryCall.itinerary.id)}
    /\ ItineraryGoto("d_findDays", itineraryCall)
    /\ UNCHANGED <<itineraryRepository, walletVars>>

(* Lines 405-418: the remaining days are read and summed. *)
d_findDays ==
    /\ itineraryCall.pc = "d_findDays"
    /\ ItineraryGoto("d_saveTotals",
          [itineraryCall EXCEPT
              !.itinerary = WithTotals(@, DaysOf(itineraryCall.itinerary.id))])
    /\ UNCHANGED <<itineraryRepository, itineraryDayRepository, walletVars>>

(* Lines 420-422 *)
d_saveTotals ==
    /\ itineraryCall.pc = "d_saveTotals"
    /\ SaveItinerary(itineraryCall.itinerary)
    /\ ItineraryEnds("Itinerary day deleted successfully")
    /\ UNCHANGED <<itineraryDayRepository, walletVars>>

(* SPECIFICATIONS *)
(***************************************************************************)
(* Spec: the handlers interleave at their awaits.  It has the operations   *)
(* that write the ledger: requestWithdrawal, createWallet, the scheduled   *)
(* reconciliation (t2 overlapping t1) and forceCheckWithdrawal.            *)
(***************************************************************************)
Next ==
    \/ \E k \in 1..MaxWithdrawals, raw \in SettledStatuses : ProviderSettles(k, raw)
    \/ \E p \in Clients : \E c \in Creators, amt \in Amounts : requestWithdrawal(p, c, amt)
    \/ \E p \in Clients : rw_saveDebit(p)
    \/ \E p \in Clients : rw_saveWithdrawal(p)
    \/ \E p \in Clients : \E b \in BOOLEAN, i \in BOOLEAN : rw_sendPayoutOk(p, b, i)
    \/ \E p \in Clients : rw_sendPayoutFails(p)
    \/ \E p \in Clients : rw_saveProcessing(p)
    \/ \E p \in Clients : rw_saveRefund(p)
    \/ \E p \in Clients : rw_saveFailed(p)
    \/ \E p \in Clients : \E c \in Creators : createWallet(p, c)
    \/ \E p \in Clients : cw_save(p)
    \/ \E p \in Clients : \E id \in 1..MaxWithdrawals : forceCheckWithdrawal(p, id)
    \/ \E p \in Ticks : updateWithdrawalStatuses(p)
    \/ \E p \in Ticks : loop(p)
    \/ \E p \in Procs : getPayoutStatusOk(p)
    \/ \E p \in Ticks : getPayoutItemStatusOk(p)
    \/ \E p \in Procs : uw_saveCompleted(p)
    \/ \E p \in Procs : rf_findWallet(p)
    \/ \E p \in Procs : rf_saveWallet(p)
    \/ \E p \in Procs : uw_saveFailed(p)
    \/ \E p \in Procs : getPayoutStatusFails(p)
    \/ \E p \in Ticks : getPayoutItemStatusFails(p)

Spec == Init /\ [][Next]_vars

(***************************************************************************)
(* SeqSpec: one handler at a time.  A call or a tick runs from its first   *)
(* step to its last with no other handler's step in between; the provider  *)
(* moves on its own.  This is the frame of the statements about what one   *)
(* call does.                                                              *)
(***************************************************************************)
Alone(p) == \A q \in Procs \ {p} : pc[q] = "idle"

SeqNext ==
    \/ \E k \in 1..MaxWithdrawals : ProviderHolds(k)
    \/ \E k \in 1..MaxWithdrawals, raw \in SettledStatuses : ProviderSettles(k, raw)
    \/ \E p \in Clients : \E c \in Creators, amt \in Amounts : Alone(p) /\ requestWithdrawal(p, c, amt)
    \/ \E p \in Clients : Alone(p) /\ rw_saveDebit(p)
    \/ \E p \in Clients : Alone(p) /\ rw_saveWithdrawal(p)
    \/ \E p \in Clients : \E b \in BOOLEAN, i \in BOOLEAN : Alone(p) /\ rw_sendPayoutOk(p, b, i)
    \/ \E p \in Clients : Alone(p) /\ rw_sendPayoutFails(p)
    \/ \E p \in Clients : Alone(p) /\ rw_saveProcessing(p)
    \/ \E p \in Clients : Alone(p) /\ rw_saveRefund(p)
    \/ \E p \in Clients : Alone(p) /\ rw_saveFailed(p)
    \/ \E p \in Clients : \E c \in Creators : Alone(p) /\ createWallet(p, c)
    \/ \E p \in Clients : Alone(p) /\ cw_save(p)
    \/ \E p \in Clients : \E c \in Creators : Alone(p) /\ linkPayPal(p, c, "alice@paypal")
    \/ \E p \in Clients : Alone(p) /\ lp_save(p)
    \/ \E p \in Clients : \E id \in 1..MaxWithdrawals : Alone(p) /\ forceCheckWithdrawal(p, id)
    \/ \E p \in Ticks : Alone(p) /\ updateWithdrawalStatuses(p)
    \/ \E p \in Ticks : Alone(p) /\ loop(p)
    \/ \E p \in Procs : Alone(p) /\ getPayoutStatusOk(p)
    \/ \E p \in Ticks : Alone(p) /\ getPayoutItemStatusOk(p)
    \/ \E p \in Procs : Alone(p) /\ uw_saveCompleted(p)
    \/ \E p \in Procs : Alone(p) /\ rf_findWallet(p)
    \/ \E p \in Procs : Alone(p) /\ rf_saveWallet(p)
    \/ \E p \in Procs : Alone(p) /\ uw_saveFailed(p)
    \/ \E p \in Procs : Alone(p) /\ getPayoutStatusFails(p)
    \/ \E p \in Ticks : Alone(p) /\ getPayoutItemStatusFails(p)

SeqSpec == Init /\ [][SeqNext]_vars

(***************************************************************************)
(* FairSpec: requests and the scheduled reconciliation, with a provider    *)
(* that answers every status call and settles every payout.  The job is    *)
(* scheduled every 30 seconds (line 130), every awaited call comes back,   *)
(* and the provider gives every item a final status.                       *)
(***************************************************************************)
FairNext ==
    \/ \E k \in 1..MaxWithdrawals : ProviderHolds(k)
    \/ \E k \in 1..MaxWithdrawals, raw \in SettledStatuses : ProviderSettles(k, raw)
    \/ \E p \in {"c1"} : \E c \in Creators, amt \in Amounts : requestWithdrawal(p, c, amt)
    \/ \E p \in {"c1"} : rw_saveDebit(p)
    \/ \E p \in {"c1"} : rw_saveWithdrawal(p)
    \/ \E p \in {"c1"} : \E b \in BOOLEAN, i \in BOOLEAN : rw_sendPayoutOk(p, b, i)
    \/ \E p \in {"c1"} : rw_sendPayoutFails(p)
    \/ \E p \in {"c1"} : rw_saveProcessing(p)
    \/ \E p \in {"c1"} : rw_saveRefund(p)
    \/ \E p \in {"c1"} : rw_saveFailed(p)
    \/ \E p \in {"t1"} : updateWithdrawalStatuses(p)
    \/ \E p \in {"t1"} : loop(p)
    \/ \E p \in {"c1", "t1"} : getPayoutStatusOk(p)
    \/ \E p \in {"t1"} : getPayoutItemStatusOk(p)
    \/ \E p \in {"c1", "t1"} : uw_saveCompleted(p)
    \/ \E p \in {"c1", "t1"} : rf_findWallet(p)
    \/ \E p \in {"c1", "t1"} : rf_saveWallet(p)
    \/ \E p \in {"c1", "t1"} : uw_saveFailed(p)

Fairness ==
    /\ \A k \in 1..MaxWithdrawals :
          WF_vars(\E raw \in SettledStatuses : ProviderSettles(k, raw))
    /\ WF_vars(rw_saveDebit("c1") \/ rw_saveWithdrawal("c1")
               \/ (\E b \in BOOLEAN, i \in BOOLEAN : rw_sendPayoutOk("c1", b, i))
               \/ rw_sendPayoutFails("c1") \/ rw_saveProcessing("c1")
               \/ rw_saveRefund("c1") \/ rw_saveFailed("c1"))
    /\ WF_vars(updateWithdrawalStatuses("t1") \/ loop("t1")
               \/ getPayoutStatusOk("t1") \/ getPayoutItemStatusOk("t1")
               \/ uw_saveCompleted("t1") \/ rf_findWallet("t1")
               \/ rf_saveWallet("t1") \/ uw_saveFailed("t1"))

FairSpec == Init /\ [][FairNext]_vars /\ Fairness

(***************************************************************************)
(* NormSpec: the status normalization over a set of status strings.  One   *)
(* withdrawal is PROCESSING at the provider, whose item carries any of the *)
(* strings of RawStatuses and may get another until it has a final one;    *)
(* the reconciliation reads it through getPayoutStatus and                 *)
(* getPayoutItemStatus.                                                    *)
(***************************************************************************)
NormInit ==
    /\ \E raw \in RawStatuses :
          payouts = << << [payout_item_id |-> 1, transaction_status |-> raw] >> >>
    /\ withdrawalRepository =
          << [id |-> 1, creatorId |-> "alice", amount |-> MinWithdrawal,
              status |-> "PROCESSING", paypalBatchId |-> 1,
              paypalPayoutItemId |-> 1, failureReason |-> ""] >>
    /\ walletRepository =
          [c \in Creators |->
              [found |-> TRUE, creatorId |-> c, balance |-> InitBalance,
               paypalEmail |-> "alice@paypal"]]
    /\ credited = [c \in Creators |-> InitBalance + MinWithdrawal]
    /\ refunds = [id \in 1..MaxWithdrawals |-> 0]
    /\ ItineraryIdle
    /\ pc = [p \in Procs |-> "idle"]
    /\ local = [p \in Procs |-> NoFrame]
    /\ result = ""
    /\ lastSaved = 0

NormNext ==
    \/ \E raw \in RawStatuses : ProviderReports(1, raw)
    \/ \E p \in {"t1"} : updateWithdrawalStatuses(p)
    \/ \E p \in {"t1"} : loop(p)
    \/ \E p \in {"t1"} : getPayoutStatusOk(p)
    \/ \E p \in {"t1"} : getPayoutItemStatusOk(p)
    \/ \E p \in {"t1"} : uw_saveCompleted(p)
    \/ \E p \in {"t1"} : rf_findWallet(p)
    \/ \E p \in {"t1"} : rf_saveWallet(p)
    \/ \E p \in {"t1"} : uw_saveFailed(p)

NormSpec == NormInit /\ [][NormNext]_vars

(***************************************************************************)
(* MatchSpec: the choice of the batch item over batches of any shape.  One *)
(* withdrawal is PROCESSING with batch 1; it has any stored item id or     *)
(* none, and the batch answers with up to MaxItems items of distinct ids,  *)
(* among them possibly the stored one.  A tick or a forced check reads the *)
(* batch; the item-level call fails for an id the provider does not hold.  *)
(***************************************************************************)
ItemIds == 1..(MaxItems + 1)
MatchStatuses == {s_pending, s_success, s_failed}
BatchItems == [payout_item_id : ItemIds, transaction_status : MatchStatuses]
Batches ==
    {b \in UNION {[1..n -> BatchItems] : n \in 0..MaxItems} :
        \A i, j \in 1..Len(b) : b[i].payout_item_id = b[j].payout_item_id => i = j}

MatchInit ==
    /\ \E b \in Batches : payouts = <<b>>
    /\ \E stored \in {0} \cup ItemIds :
          withdrawalRepository =
              << [id |-> 1, creatorId |-> "alice", amount |-> MinWithdrawal,
                  status |-> "PROCESSING", paypalBatchId |-> 1,
                  paypalPayoutItemId |-> stored, failureReason |-> ""] >>
    /\ walletRepository =
          [c \in Creators |->
              [found |-> TRUE, creatorId |-> c, balance |-> InitBalance,
               paypalEmail |-> "alice@paypal"]]
    /\ credited = [c \in Creators |-> InitBalance + MinWithdrawal]
    /\ refunds = [id \in 1..MaxWithdrawals |-> 0]
    /\ ItineraryIdle
    /\ pc = [p \in Procs |-> "idle"]
    /\ local = [p \in Procs |-> NoFrame]
    /\ result = ""
    /\ lastSaved = 0

MatchNext ==
    \/ \E p \in {"c1"} : Alone(p) /\ forceCheckWithdrawal(p, 1)
    \/ \E p \in {"t1"} : Alone(p) /\ updateWithdrawalStatuses(p)
    \/ \E p \in {"t1"} : loop(p)
    \/ \E p \in {"c1", "t1"} : getPayoutStatusOk(p)
    \/ \E p \in {"t1"} : getPayoutItemStatusOk(p)
    \/ \E p \in {"t1"} : getPayoutItemStatusFails(p)
    \/ \E p \in {"c1", "t1"} : uw_saveCompleted(p)
    \/ \E p \in {"c1", "t1"} : rf_findWallet(p)
    \/ \E p \in {"c1", "t1"} : rf_saveWallet(p)
    \/ \E p \in {"c1", "t1"} : uw_saveFailed(p)

MatchSpec == MatchInit /\ [][MatchNext]_vars

(***************************************************************************)
(* FaultSpec: one handler at a time, with calls that fail.  Besides the    *)
(* provider's calls, the repository calls of the reconciliation and the    *)
(* write of line 103 may throw.  The service starts either fresh, as in    *)
(* Init, or with two withdrawals PROCESSING at the provider, each with or  *)
(* without a stored item id and with any status of MatchStatuses.          *)
(***************************************************************************)
ProcessingRow(id, hasItemId) ==
    [id |-> id, creatorId |-> "alice", amount |-> MinWithdrawal,
     status |-> "PROCESSING", paypalBatchId |-> id,
     paypalPayoutItemId |-> IF hasItemId THEN id ELSE 0, failureReason |-> ""]

FaultInit ==
    \/ Init
    \/ /\ \E i1 \in BOOLEAN, i2 \in BOOLEAN :
             withdrawalRepository = << ProcessingRow(1, i1), ProcessingRow(2, i2) >>
       /\ \E s1 \in MatchStatuses, s2 \in MatchStatuses :
             payouts = << << [payout_item_id |-> 1, transaction_status |-> s1] >>,
                          << [payout_item_id |-> 2, transaction_status |-> s2] >> >>
       /\ walletRepository =
             [c \in Creators |->
                 [found |-> TRUE, creatorId |-> c, balance |-> InitBalance,
                  paypalEmail |-> "alice@paypal"]]
       /\ credited = [c \in Creators |-> InitBalance + 2 * MinWithdrawal]
       /\ refunds = [id \in 1..MaxWithdrawals |-> 0]
       /\ ItineraryIdle
       /\ pc = [p \in Procs |-> "idle"]
       /\ local = [p \in Procs |-> NoFrame]
       /\ result = ""
       /\ lastSaved = 0

FaultNext ==
    \/ \E p \in {"c1"} : \E c \in Creators, amt \in Amounts : Alone(p) /\ requestWithdrawal(p, c, amt)
    \/ \E p \in {"c1"} : rw_saveDebit(p)
    \/ \E p \in {"c1"} : rw_saveWithdrawal(p)
    \/ \E p \in {"c1"} : \E b \in BOOLEAN, i \in BOOLEAN : rw_sendPayoutOk(p, b, i)
    \/ \E p \in {"c1"} : rw_sendPayoutFails(p)
    \/ \E p \in {"c1"} : rw_saveProcessing(p)
    \/ \E p \in {"c1"} : rw_saveProcessingFails(p)
    \/ \E p \in {"c1"} : rw_saveRefund(p)
    \/ \E p \in {"c1"} : rw_saveFailed(p)
    \/ \E p \in {"c1"} : \E id \in 1..MaxWithdrawals : Alone(p) /\ forceCheckWithdrawal(p, id)
    \/ \E p \in {"t1"} : Alone(p) /\ updateWithdrawalStatuses(p)
    \/ \E p \in {"t1"} : loop(p)
    \/ \E p \in {"c1", "t1"} : getPayoutStatusOk(p)
    \/ \E p \in {"c1", "t1"} : getPayoutStatusFails(p)
    \/ \E p \in {"t1"} : getPayoutItemStatusOk(p)
    \/ \E p \in {"t1"} : getPayoutItemStatusFails(p)
    \/ \E p \in {"c1", "t1"} : uw_saveCompleted(p)
    \/ \E p \in {"c1", "t1"} : rf_findWallet(p)
    \/ \E p \in {"c1", "t1"} : rf_saveWallet(p)
    \/ \E p \in {"c1", "t1"} : uw_saveFailed(p)
    \/ \E p \in {"c1", "t1"} : repositoryFails(p)

FaultSpec == FaultInit /\ [][FaultNext]_vars

(***************************************************************************)
(* ItinerarySpec: the calls of ItineraryService that write the budget      *)
(* totals, one at a time, over every dto of up to MaxDtoDays days.         *)
(***************************************************************************)
ItineraryInit ==
    /\ walletRepository = [c \in Creators |-> NoWallet]
    /\ credited = [c \in Creators |-> 0]
    /\ withdrawalRepository = <<>>
    /\ payouts = <<>>
    /\ refunds = [id \in 1..MaxWithdrawals |-> 0]
    /\ pc = [p \in Procs |-> "idle"]
    /\ local = [p \in Procs |-> NoFrame]
    /\ result = ""
    /\ lastSaved = 0
    /\ ItineraryIdle

ItineraryNext ==
    \/ \E userId \in Users, postFound \in BOOLEAN, totalDays \in 0..MaxTotalDays,
          days \in DtoDays : create(userId, postFound, totalDays, days)
    \/ c_saveItinerary
    \/ c_saveDays
    \/ c_saveTotals
    \/ \E id \in 1..MaxItineraries, userId \in Users,
          totalDays \in {Undefined} \cup (0..MaxTotalDays), days \in DtoDays :
          update(id, userId, totalDays, days)
    \/ u_saveItinerary
    \/ u_day
    \/ u_saveDay
    \/ u_findDays
    \/ u_saveTotals
    \/ \E itineraryId \in 1..MaxItineraries, dayId \in 1..MaxDayRows, userId \in Users :
          deleteItineraryDay(itineraryId, dayId, userId)
    \/ d_findDay
    \/ d_delete
    \/ d_findDays
    \/ d_saveTotals

ItinerarySpec == ItineraryInit /\ [][ItineraryNext]_vars

(* CLAIMS *)
(***************************************************************************)
(* Vocabulary of the properties.                                           *)
(***************************************************************************)
Rows == 1..Len(withdrawalRepository)
Quiescent == \A p \in Procs : pc[p] = "idle"
Terminal(id) == withdrawalRepository[id].status \in {"COMPLETED", "FAILED"}
LedgerUnchanged == UNCHANGED <<walletRepository, withdrawalRepository, payouts>>

RECURSIVE SumOfAmounts(_)
SumOfAmounts(ws) ==
    IF ws = <<>> THEN 0 ELSE Head(ws).amount + SumOfAmounts(Tail(ws))

(* The amounts of creator c's withdrawals that are not FAILED. *)
Outstanding(c) ==
    SumOfAmounts(SelectSeq(withdrawalRepository,
        LAMBDA w : w.creatorId = c
                   /\ w.status \in {"PENDING", "PROCESSING", "COMPLETED"}))

(***************************************************************************)
(* C1.  Whenever no handler is between two of its awaits, each wallet's    *)
(* balance is its credited total minus the amounts of the creator's        *)
(* PENDING, PROCESSING and COMPLETED withdrawals, whatever the             *)
(* interleaving of requests, ticks and forced checks was.                  *)
(***************************************************************************)
C1_LedgerBalance ==
    Quiescent =>
        \A c \in Creators :
            walletRepository[c].found =>
                walletRepository[c].balance = credited[c] - Outstanding(c)

(***************************************************************************)
(* C2.  When sendPayout fails, the step on which requestWithdrawal throws  *)
(* leaves the wallet with the balance it had before the call and the       *)
(* call's withdrawal FAILED with a reason.                                 *)
(***************************************************************************)
C2_GatewayFailureRestores ==
    [][\A p \in Clients :
          (pc[p] = "rw_saveFailed" /\ pc'[p] = "idle"
             /\ local[p].error = "PayPal payout failed")
          => /\ result' = "Withdrawal failed"
             /\ walletRepository'[local[p].creatorId].balance = local[p].balanceBefore
             /\ withdrawalRepository'[local[p].withdrawal.id].status = "FAILED"
             /\ withdrawalRepository'[local[p].withdrawal.id].failureReason # ""]_vars

C2_Witness ==
    /\ result = "Withdrawal failed"
    /\ lastSaved \in Rows
    /\ withdrawalRepository[lastSaved].status = "FAILED"
    /\ withdrawalRepository[lastSaved].failureReason # ""
    /\ walletRepository["alice"].balance = credited["alice"]

(***************************************************************************)
(* C3.  A requestWithdrawal whose amount is below 5, whose creator has no  *)
(* wallet, whose wallet has no linked email, or whose amount exceeds the   *)
(* balance ends at once with a validation or not-found error: no wallet    *)
(* or withdrawal row is written and the provider is not called.            *)
(***************************************************************************)
RefusalMessages ==
    {"Invalid withdrawal amount", "Minimum withdrawal amount is $5",
     "Wallet not found", "Please link your PayPal account first",
     "Insufficient balance"}

Invalid(amt, w) ==
    amt < 5 \/ ~w.found \/ w.paypalEmail = "" \/ amt > w.balance

C3_RefusedBeforeAnyWrite ==
    [][\A p \in Clients, c \in Creators, amt \in Amounts :
          (requestWithdrawal(p, c, amt) /\ Invalid(amt, walletRepository[c]))
          => /\ result' \in RefusalMessages
             /\ pc'[p] = "idle"
             /\ LedgerUnchanged]_vars

C3_Witness ==
    /\ result = "Insufficient balance"
    /\ walletRepository["alice"].balance < MinWithdrawal
    /\ Len(withdrawalRepository) = 1

(***************************************************************************)
(* C4.  A row's status moves only along PENDING -> PROCESSING,             *)
(* PENDING -> FAILED, PROCESSING -> COMPLETED, PROCESSING -> FAILED, and   *)
(* no step saves a row that is COMPLETED or FAILED.                        *)
(***************************************************************************)
EdgeAllowed(from, to) ==
    \/ from = to
    \/ from = "PENDING" /\ to \in {"PROCESSING", "FAILED"}
    \/ from = "PROCESSING" /\ to \in {"COMPLETED", "FAILED"}

C4_TerminalNeverWritten ==
    [][\A id \in Rows :
          /\ EdgeAllowed(withdrawalRepository[id].status,
                         withdrawalRepository'[id].status)
          /\ Terminal(id) => lastSaved' # id]_vars

(***************************************************************************)
(* C5.  With requestWithdrawal calls for one creator interleaved, the      *)
(* amounts of the withdrawals that are not FAILED never exceed what the    *)
(* wallet held, and the balance is never negative.                         *)
(***************************************************************************)
C5_NoOverdraw ==
    \A c \in Creators :
        /\ Outstanding(c) <= credited[c]
        /\ walletRepository[c].balance >= 0

(***************************************************************************)
(* C6.  When a tick is done with a PROCESSING withdrawal that has a batch  *)
(* id: matched item SUCCESS - the row is COMPLETED and the balance is what *)
(* it was; matched item FAILED - the row is FAILED and the balance is up   *)
(* by the row's amount; matched item and item-level status both neither -  *)
(* the row and the balance are what they were.                             *)
(***************************************************************************)
C6_OneTickOutcome ==
    \A t \in Ticks :
        (pc[t] = "loop" /\ local[t].item.matched) =>
            LET w == local[t].withdrawal
                row == withdrawalRepository[w.id]
                balance == walletRepository[w.creatorId].balance
                before == local[t].balanceBefore
                batch == local[t].item.transaction_status
                single == local[t].itemStatus
            IN  /\ batch = S_SUCCESS =>
                      row.status = "COMPLETED" /\ balance = before
                /\ batch = S_FAILED =>
                      row.status = "FAILED" /\ balance = before + row.amount
                /\ (batch \notin {S_SUCCESS, S_FAILED}
                      /\ single \notin {S_SUCCESS, S_FAILED}) =>
                      row = w /\ row.status = "PROCESSING" /\ balance = before

C6_Witness ==
    \E t \in Ticks :
        /\ pc[t] = "loop"
        /\ local[t].item.matched
        /\ local[t].item.transaction_status = S_FAILED
        /\ withdrawalRepository[local[t].withdrawal.id].status = "FAILED"
        /\ walletRepository["alice"].balance = local[t].balanceBefore + MinWithdrawal

(***************************************************************************)
(* C7.  No wallet row ever holds a negative balance, whatever the          *)
(* interleaving of createWallet, requestWithdrawal with its credit-back,   *)
(* ticks and forced checks.                                                *)
(***************************************************************************)
C7_BalanceNonNegative ==
    \A c \in Creators : walletRepository[c].balance >= 0

(* The whole balance is withdrawn, after an earlier request was credited   *)
(* back.                                                                   *)
C7_Witness ==
    /\ walletRepository["alice"].found
    /\ walletRepository["alice"].balance = 0
    /\ Len(withdrawalRepository) = 2
    /\ withdrawalRepository[1].status = "FAILED"
    /\ withdrawalRepository[2].status = "PROCESSING"

(***************************************************************************)
(* C8.  With the tick firing again and again and the provider settling     *)
(* every payout for good, a withdrawal that is PROCESSING is COMPLETED or  *)
(* FAILED at some later time.                                              *)
(***************************************************************************)
C8_EventuallyTerminal ==
    \A id \in 1..MaxWithdrawals :
        (id \in Rows /\ withdrawalRepository[id].status = "PROCESSING")
            ~> (id \in Rows /\ Terminal(id))

(***************************************************************************)
(* C9.  forceCheckWithdrawal on a row that is not PROCESSING answers with  *)
(* its message, and on a PROCESSING row without batch id throws; in both   *)
(* cases the call ends on that step, with no provider call and no row      *)
(* written.                                                                *)
(***************************************************************************)
C9_ForceCheckRefusals ==
    [][\A p \in Clients, id \in Rows :
          forceCheckWithdrawal(p, id) =>
              LET w == withdrawalRepository[id] IN
              /\ w.status # "PROCESSING" =>
                    /\ result' = "Withdrawal is not in processing status"
                    /\ pc'[p] = "idle"
                    /\ LedgerUnchanged
              /\ (w.status = "PROCESSING" /\ w.paypalBatchId = 0) =>
                    /\ result' = "No PayPal batch ID found"
                    /\ pc'[p] = "idle"
                    /\ LedgerUnchanged]_vars

C9_Witness ==
    /\ result = "No PayPal batch ID found"
    /\ \E id \in Rows : Terminal(id)
    /\ \E id \in Rows : /\ withdrawalRepository[id].status = "PROCESSING"
                        /\ withdrawalRepository[id].paypalBatchId = 0

(***************************************************************************)
(* C10.  The status that getPayoutStatus gives an item, and the status     *)
(* that getPayoutItemStatus returns, are determined by the provider's      *)
(* string: SUCCESS, FAILED or PENDING for the words of the three families  *)
(* in any letter case, UNKNOWN for null and the empty string, and the      *)
(* string in upper case otherwise.                                         *)
(***************************************************************************)
SameLetter(x, y) ==
    x = y \/ \E i \in 1..26 : {x, y} = {UpperCaseLetters[i], LowerCaseLetters[i]}

EqualsIgnoringCase(s, word) ==
    Len(s) = Len(word) /\ \A i \in 1..Len(s) : SameLetter(s[i], word[i])

Among(s, words) == \E word \in words : EqualsIgnoringCase(s, word)

IsIn(table, c) == \E i \in 1..26 : table[i] = c

IsUpperCaseOf(out, s) ==
    /\ Len(out) = Len(s)
    /\ \A i \in 1..Len(s) : SameLetter(out[i], s[i]) /\ ~IsIn(LowerCaseLetters, out[i])

Normalizes(raw, out) ==
    IF raw = Null \/ raw = <<>> THEN out = <<"U", "N", "K", "N", "O", "W", "N">>
    ELSE IF Among(raw, {s_success, s_completed, s_claimed})
    THEN out = <<"S", "U", "C", "C", "E", "S", "S">>
    ELSE IF Among(raw, {s_failed, s_returned, s_refunded, s_blocked})
    THEN out = <<"F", "A", "I", "L", "E", "D">>
    ELSE IF Among(raw, {s_pending, s_unclaimed})
    THEN out = <<"P", "E", "N", "D", "I", "N", "G">>
    ELSE IsUpperCaseOf(out, raw)

C10_Normalization ==
    [][\A t \in Ticks :
          /\ (pc[t] = "getPayoutStatus" /\ pc'[t] # "getPayoutStatus") =>
                /\ local'[t].item.matched
                /\ Normalizes(RawStatus(local[t].withdrawal.paypalBatchId),
                              local'[t].item.transaction_status)
          /\ (pc[t] = "getPayoutItemStatus" /\ pc'[t] # "getPayoutItemStatus") =>
                Normalizes(RawStatus(local[t].withdrawal.paypalPayoutItemId),
                           local'[t].itemStatus)]_vars

(* The batch call answered WEIRD_STATUS for weird_status, then the item    *)
(* call answered FAILED.                                                   *)
C10_Witness ==
    \E t \in Ticks :
        /\ local[t].item.transaction_status =
              <<"W", "E", "I", "R", "D", "_", "S", "T", "A", "T", "U", "S">>
        /\ local[t].itemStatus = <<"F", "A", "I", "L", "E", "D">>
        /\ payouts # <<>>
        /\ EqualsIgnoringCase(RawStatus(1), s_blocked)
        /\ RawStatus(1) \notin {s_blocked, toUpperCase(s_blocked)}

(***************************************************************************)
(* C11.  When a tick has the answer for a withdrawal's batch: with a       *)
(* stored item id that an item of the batch carries, that item is the one  *)
(* applied; with no stored item id and a batch of exactly one item, that   *)
(* item is applied; in every other case no item is applied and the         *)
(* withdrawal is left as it was.  The withdrawal takes its status from the *)
(* item applied.                                                           *)
(***************************************************************************)
C11_ItemApplied ==
    [][\A t \in Ticks :
          getPayoutStatusOk(t) =>
              LET w == local[t].withdrawal
                  stored == w.paypalPayoutItemId
                  items == getPayoutStatus(w.paypalBatchId)
                  matching == {i \in 1..Len(items) : items[i].payout_item_id = stored}
                  applied == local'[t].item
                  after == local'[t].withdrawal
              IN  /\ (stored # 0 /\ matching # {}) =>
                        \E i \in matching : applied = items[i]
                  /\ (stored = 0 /\ Len(items) = 1) => applied = items[1]
                  /\ ((stored # 0 /\ matching = {}) \/ (stored = 0 /\ Len(items) # 1)) =>
                        applied = NoItem /\ after = w
                  /\ applied.matched =>
                        /\ applied.transaction_status = S_SUCCESS
                              <=> after.status = "COMPLETED"
                        /\ applied.transaction_status = S_FAILED
                              <=> after.status = "FAILED"]_vars

(* The stored id is carried by the second of two items, whose status is    *)
(* not the first item's, and the tick has applied the second.              *)
C11_Witness ==
    /\ payouts # <<>>
    /\ Len(payouts[1]) = 2
    /\ payouts[1][1].transaction_status = s_pending
    /\ payouts[1][2].transaction_status = s_failed
    /\ local["t1"].withdrawal.paypalPayoutItemId = payouts[1][2].payout_item_id
    /\ local["t1"].item.matched
    /\ local["t1"].item.payout_item_id = payouts[1][2].payout_item_id
    /\ local["t1"].withdrawal.status = "FAILED"

(***************************************************************************)
(* C12.  Whatever fails while a tick works on one withdrawal (the batch    *)
(* call, the item call, the refund, a save), the tick keeps the rows it    *)
(* has still to check, goes on with the next of them, and ends only with   *)
(* none left and its normal completion.                                    *)
(***************************************************************************)
C12_TickGoesOn ==
    [][\A t \in Ticks :
          LET rest == SkipNoBatch(local[t].processingWithdrawals) IN
          /\ (pc[t] # "idle" /\ pc'[t] = "idle") =>
                /\ pc[t] = "loop"
                /\ rest = <<>>
                /\ result' = "Withdrawal status update completed"
          /\ (pc[t] = "loop" /\ rest # <<>> /\ pc'[t] # pc[t]) =>
                /\ pc'[t] = "getPayoutStatus"
                /\ local'[t].withdrawal = Head(rest)
                /\ local'[t].processingWithdrawals = Tail(rest)
          /\ (pc[t] \notin {"idle", "loop"} /\ pc'[t] # pc[t]) =>
                /\ pc'[t] # "idle"
                /\ local'[t].processingWithdrawals = local[t].processingWithdrawals]_vars

(* The tick found rows 1 and 2.  The provider has failed payout 1, and row *)
(* 1 is still PROCESSING: the work on it ended in an error.  The tick has  *)
(* gone on and saved row 2.                                                *)
C12_Witness ==
    /\ pc["t1"] = "loop"
    /\ Len(withdrawalRepository) = 2
    /\ local["t1"].withdrawal.id = 2
    /\ lastSaved = 2
    /\ Terminal(2)
    /\ withdrawalRepository[1].status = "PROCESSING"
    /\ withdrawalRepository[1].paypalBatchId = 1
    /\ RawStatus(1) = s_failed

(***************************************************************************)
(* C13.  For every withdrawal, refundToWallet saves the wallet credited    *)
(* with the withdrawal's amount at most once in the whole execution,       *)
(* however ticks and forced checks on the withdrawal interleave.           *)
(***************************************************************************)
C13_CreditedBackOnce ==
    \A id \in 1..MaxWithdrawals : refunds[id] <= 1

(***************************************************************************)
(* C14.  When a requestWithdrawal call whose sendPayout did not fail ends, *)
(* by return or by throw, the wallet is debited by the amount and the      *)
(* call's withdrawal is not FAILED.                                        *)
(***************************************************************************)
C14_SubmittedStaysDebited ==
    [][\A p \in Clients :
          (/\ pc[p] \in {"rw_saveProcessing", "rw_saveRefund", "rw_saveFailed"}
           /\ pc'[p] = "idle"
           /\ local[p].error # "PayPal payout failed")
          => /\ walletRepository'[local[p].creatorId].balance =
                   local[p].balanceBefore - local[p].amount
             /\ withdrawalRepository'[local[p].withdrawal.id].status # "FAILED"]_vars

(***************************************************************************)
(* C15.  When forceCheckWithdrawal has returned from its check of a        *)
(* PROCESSING withdrawal with a batch id, the row has the status, and the  *)
(* wallet the balance, that one tick leaves for the same row and the same  *)
(* answers of the provider.                                                *)
(***************************************************************************)
(* The status one tick leaves for the PROCESSING row w: lines 150-166 on   *)
(* the batch's items, then lines 168-184 on the item's own status.         *)
StatusAfterTick(w) ==
    LET items == getPayoutStatus(w.paypalBatchId)
        it == FindItem(w, items, Len(items))
        batch == IF it.matched THEN StatusFromItem(it.transaction_status)
                 ELSE "PROCESSING"
        known == ItemsWithId(w.paypalPayoutItemId) # {}
    IN  IF batch # "PROCESSING" THEN batch
        ELSE IF ~(NeedsItemCheck(w) /\ known) THEN "PROCESSING"
        ELSE IF getPayoutItemStatus(w.paypalPayoutItemId) = S_SUCCESS THEN "COMPLETED"
        ELSE IF getPayoutItemStatus(w.paypalPayoutItemId) = S_FAILED THEN "FAILED"
        ELSE "PROCESSING"

C15_ForceCheckAsTick ==
    (result = "Status check completed") =>
        LET row == withdrawalRepository[1]
            expected == StatusAfterTick([row EXCEPT !.status = "PROCESSING"])
        IN  /\ row.status = expected
            /\ walletRepository[row.creatorId].balance =
                  InitBalance + (IF expected = "FAILED" THEN row.amount ELSE 0)

(***************************************************************************)
(* C16.  Whenever no ItineraryService call is running, whether the last    *)
(* one returned or threw, every itinerary's estimatedTotalBudgetMin and    *)
(* estimatedTotalBudgetMax are the sums of budgetMin and budgetMax over    *)
(* the itinerary's rows in the day table.                                  *)
(***************************************************************************)
RECURSIVE SumOfBudgets(_, _)
SumOfBudgets(days, max) ==
    IF days = {} THEN 0
    ELSE LET d == CHOOSE x \in days : TRUE
         IN  (IF max THEN d.budgetMax ELSE d.budgetMin) + SumOfBudgets(days \ {d}, max)

C16_TotalsMatchDays ==
    itineraryCall.pc = "idle" =>
        \A id \in 1..Len(itineraryRepository) :
            LET persisted == {d \in itineraryDayRepository : d.itineraryId = id} IN
            /\ itineraryRepository[id].estimatedTotalBudgetMin =
                  SumOfBudgets(persisted, FALSE)
            /\ itineraryRepository[id].estimatedTotalBudgetMax =
                  SumOfBudgets(persisted, TRUE)

====
